---- MODULE Spec2Model ----
(***************************************************************************)
(* The vote contract of src/src/assetTransfer.ts (AssetTransferContract)   *)
(* over the ledger's world state.  Keys and values are strings; a stored   *)
(* value is the text the contract wrote with                               *)
(* stringify(sortKeysRecursive(vote)) and reads back with JSON.parse.      *)
(* Texts are modelled character by character: the encoder escapes, the     *)
(* parser unescapes, and the JavaScript object that GetVoteStatistics      *)
(* counts in keeps its prototype.                                          *)
(***************************************************************************)
EXTENDS Integers, Sequences, FiniteSets, TLC

VARIABLES state, before, call, response

vars == <<state, before, call, response>>

(***************************************************************************)
(* Bounds of the model: how many voter ids, candidate ids and stations the *)
(* callers draw their arguments from, and how many values written by       *)
(* another writer the ledger may hold at the start (SpecLedger).           *)
(***************************************************************************)
NumVoters == 2

NumCandidates == 2

NumStations == 1

NumForeign == 2

(***************************************************************************)
(* Characters and strings.  A string is compared by its UTF-16 code units, *)
(* which for the printable ASCII characters used here is the ASCII order.  *)
(***************************************************************************)
\* Codes 32..95 and 97..126 (the backquote, 96, cannot be written in a string here).
AsciiLow == " !\"#$%&'()*+,-./0123456789:;<=>?@ABCDEFGHIJKLMNOPQRSTUVWXYZ[\\]^_"

AsciiHigh == "abcdefghijklmnopqrstuvwxyz{|}~"

CharAt(s, i) == SubSeq(s, i, i)

Rest(s, i) == SubSeq(s, i, Len(s))

IndexIn(s, c) == CHOOSE i \in 1..Len(s) : CharAt(s, i) = c

CharsOf(s) == {CharAt(s, i) : i \in 1..Len(s)}

\* The code unit of each character, as a table.
CharCode ==
    [c \in CharsOf(AsciiLow) \cup CharsOf(AsciiHigh) |->
        IF c \in CharsOf(AsciiLow) THEN 31 + IndexIn(AsciiLow, c)
        ELSE 96 + IndexIn(AsciiHigh, c)]

Digits == "0123456789"

DigitValue == [c \in CharsOf(Digits) |-> IndexIn(Digits, c) - 1]

IsDigit(c) == c \in DOMAIN DigitValue

RECURSIVE StrLess(_, _)
StrLess(a, b) ==
    IF b = "" THEN FALSE
    ELSE IF a = "" THEN TRUE
    ELSE IF CharAt(a, 1) = CharAt(b, 1) THEN StrLess(Rest(a, 2), Rest(b, 2))
    ELSE CharCode[CharAt(a, 1)] < CharCode[CharAt(b, 1)]

RECURSIVE NatToString(_)
NatToString(n) ==
    IF n < 10 THEN CharAt(Digits, n + 1)
    ELSE NatToString(n \div 10) \o CharAt(Digits, (n % 10) + 1)

RECURSIVE StringToNat(_, _)
StringToNat(s, acc) ==
    IF s = "" THEN acc
    ELSE StringToNat(Rest(s, 2), 10 * acc + DigitValue[CharAt(s, 1)])

(***************************************************************************)
(* JavaScript values.  An object is the sequence of its own properties,    *)
(* <<key, value>>, in creation order; its prototype is Object.prototype.   *)
(***************************************************************************)
Undefined == [t |-> "undefined"]

JNull == [t |-> "null"]

JBool(b) == [t |-> "boolean", b |-> b]

JNum(n) == [t |-> "number", n |-> n]

JStr(s) == [t |-> "string", s |-> s]

JArr(items) == [t |-> "array", items |-> items]

JObj(props) == [t |-> "object", props |-> props]

JFun(name) == [t |-> "function", name |-> name]

HasOwn(o, k) == \E i \in 1..Len(o.props) : o.props[i][1] = k

OwnIndex(o, k) == CHOOSE i \in 1..Len(o.props) : o.props[i][1] = k

\* The names an empty object inherits from Object.prototype.
ObjectPrototypeKeys ==
    {"constructor", "hasOwnProperty", "isPrototypeOf", "propertyIsEnumerable",
     "toLocaleString", "toString", "valueOf", "__defineGetter__",
     "__defineSetter__", "__lookupGetter__", "__lookupSetter__", "__proto__"}

\* o[k] for an object o: the own property, else what Object.prototype gives.
GetProp(o, k) ==
    IF HasOwn(o, k) THEN o.props[OwnIndex(o, k)][2]
    ELSE IF k = "__proto__" THEN JObj(<<>>)
    ELSE IF k \in ObjectPrototypeKeys THEN JFun(k)
    ELSE Undefined

\* o[k] = v: Object.prototype's __proto__ setter takes the assignment of
\* "__proto__" and ignores a value that is neither an object nor null.
SetProp(o, k, v) ==
    IF HasOwn(o, k)
    THEN JObj([o.props EXCEPT ![OwnIndex(o, k)] = <<k, v>>])
    ELSE IF k = "__proto__" THEN o
    ELSE JObj(Append(o.props, <<k, v>>))

\* What JSON.parse does with a member: always an own property.
DefineProp(o, k, v) ==
    IF HasOwn(o, k)
    THEN JObj([o.props EXCEPT ![OwnIndex(o, k)] = <<k, v>>])
    ELSE JObj(Append(o.props, <<k, v>>))

ToBoolean(v) ==
    CASE v.t = "undefined" -> FALSE
      [] v.t = "null" -> FALSE
      [] v.t = "boolean" -> v.b
      [] v.t = "number" -> v.n # 0
      [] v.t = "string" -> v.s # ""
      [] OTHER -> TRUE

RECURSIVE ToStringJS(_), JoinItems(_)
ToStringJS(v) ==
    CASE v.t = "undefined" -> "undefined"
      [] v.t = "null" -> "null"
      [] v.t = "boolean" -> (IF v.b THEN "true" ELSE "false")
      [] v.t = "number" -> NatToString(v.n)
      [] v.t = "string" -> v.s
      [] v.t = "array" -> JoinItems(v.items)
      [] v.t = "function" -> "function " \o v.name \o "() { [native code] }"
      [] OTHER -> "[object Object]"
JoinItems(items) ==
    IF items = <<>> THEN ""
    ELSE LET h == IF Head(items).t \in {"null", "undefined"} THEN ""
                  ELSE ToStringJS(Head(items))
         IN  IF Len(items) = 1 THEN h ELSE h \o "," \o JoinItems(Tail(items))

\* v + 1 (the right-hand side of v += 1) for a value v that is not undefined.
PlusOne(v) ==
    CASE v.t = "number" -> JNum(v.n + 1)
      [] v.t = "null" -> JNum(1)
      [] v.t = "boolean" -> JNum((IF v.b THEN 1 ELSE 0) + 1)
      [] OTHER -> JStr(ToStringJS(v) \o "1")

(***************************************************************************)
(* Serialisation.  JSON.stringify writes an object's own properties in the *)
(* engine's property order (array-index keys ascending, then the others in *)
(* creation order); json-stringify-deterministic writes them sorted by key.*)
(* Both escape the quote and the backslash inside a string.                *)
(***************************************************************************)
\* Escape without its escapes: the text is copied as it is.
Escape_Verbatim(s) == s

RECURSIVE Escape(_)
Escape(s) ==
    IF s = "" THEN ""
    ELSE LET c == CharAt(s, 1)
         IN  (IF c = "\"" \/ c = "\\" THEN "\\" \o c ELSE c) \o Escape(Rest(s, 2))

Quote(s) == "\"" \o Escape(s) \o "\""

RECURSIVE InsertSorted(_, _)
InsertSorted(sorted, p) ==
    IF sorted = <<>> THEN <<p>>
    ELSE IF StrLess(p[1], Head(sorted)[1]) THEN <<p>> \o sorted
    ELSE <<Head(sorted)>> \o InsertSorted(Tail(sorted), p)

\* SortProps that sorts nothing: the properties stay in the order given.
SortProps_Unsorted(props) == props

RECURSIVE SortProps(_)
SortProps(props) ==
    IF props = <<>> THEN <<>>
    ELSE InsertSorted(SortProps(SubSeq(props, 1, Len(props) - 1)), props[Len(props)])

\* Keys of at most nine digits; longer array indices are outside the model.
IsArrayIndex(k) ==
    /\ k # ""
    /\ Len(k) <= 9
    /\ \A i \in 1..Len(k) : IsDigit(CharAt(k, i))
    /\ (k = "0" \/ CharAt(k, 1) # "0")

RECURSIVE InsertByIndex(_, _)
InsertByIndex(sorted, p) ==
    IF sorted = <<>> THEN <<p>>
    ELSE IF StringToNat(p[1], 0) < StringToNat(Head(sorted)[1], 0) THEN <<p>> \o sorted
    ELSE <<Head(sorted)>> \o InsertByIndex(Tail(sorted), p)

RECURSIVE SortByIndex(_)
SortByIndex(props) ==
    IF props = <<>> THEN <<>>
    ELSE InsertByIndex(SortByIndex(SubSeq(props, 1, Len(props) - 1)), props[Len(props)])

OwnProps(o) ==
    SortByIndex(SelectSeq(o.props, LAMBDA p : IsArrayIndex(p[1])))
        \o SelectSeq(o.props, LAMBDA p : ~IsArrayIndex(p[1]))

RECURSIVE SortKeysRecursive(_), SortKeysItems(_), SortKeysProps(_)
SortKeysRecursive(v) ==
    CASE v.t = "object" -> JObj(SortProps(SortKeysProps(v.props)))
      [] v.t = "array" -> JArr(SortKeysItems(v.items))
      [] OTHER -> v
SortKeysItems(items) ==
    IF items = <<>> THEN <<>>
    ELSE <<SortKeysRecursive(Head(items))>> \o SortKeysItems(Tail(items))
SortKeysProps(props) ==
    IF props = <<>> THEN <<>>
    ELSE <<(<<Head(props)[1], SortKeysRecursive(Head(props)[2])>>)>>
             \o SortKeysProps(Tail(props))

\* Serialise(v, sorted): JSON.stringify(v) when sorted is FALSE, the
\* deterministic stringify(v) when it is TRUE.
RECURSIVE Serialise(_, _), SerialiseItems(_, _), SerialiseProps(_, _, _)
Serialise(v, sorted) ==
    CASE v.t = "null" -> "null"
      [] v.t = "boolean" -> (IF v.b THEN "true" ELSE "false")
      [] v.t = "number" -> NatToString(v.n)
      [] v.t = "string" -> Quote(v.s)
      [] v.t = "array" -> "[" \o SerialiseItems(v.items, sorted) \o "]"
      [] v.t = "object" ->
            "{" \o SerialiseProps(IF sorted THEN SortProps(v.props) ELSE OwnProps(v),
                                  sorted, TRUE) \o "}"
      [] OTHER -> "null"
SerialiseItems(items, sorted) ==
    IF items = <<>> THEN ""
    ELSE Serialise(Head(items), sorted)
           \o (IF Len(items) = 1 THEN "" ELSE "," \o SerialiseItems(Tail(items), sorted))
SerialiseProps(props, sorted, first) ==
    IF props = <<>> THEN ""
    ELSE IF Head(props)[2].t \in {"undefined", "function"}
    THEN SerialiseProps(Tail(props), sorted, first)
    ELSE (IF first THEN "" ELSE ",") \o Quote(Head(props)[1]) \o ":"
            \o Serialise(Head(props)[2], sorted)
            \o SerialiseProps(Tail(props), sorted, FALSE)

JSONstringify(v) == Serialise(v, FALSE)

stringify(v) == Serialise(v, TRUE)

(***************************************************************************)
(* JSON.parse, by recursive descent over the text.  A parse step returns   *)
(* [ok, v, i]: whether it succeeded, the value, and the next position.     *)
(* The grammar covers objects, arrays, strings with the escapes of the     *)
(* quote, the backslash and the slash, non-negative integers of at most    *)
(* nine digits, null, true and false, with blanks between tokens; texts    *)
(* using the rest of JSON (fractions, exponents, signs, control and        *)
(* unicode escapes) are outside the values the model draws.                *)
(***************************************************************************)
Fail == [ok |-> FALSE, v |-> Undefined, i |-> 0]

Ok(v, i) == [ok |-> TRUE, v |-> v, i |-> i]

RECURSIVE SkipBlanks(_, _)
SkipBlanks(s, i) ==
    IF i <= Len(s) /\ CharAt(s, i) = " " THEN SkipBlanks(s, i + 1) ELSE i

StartsWith(s, i, w) == SubSeq(s, i, i + Len(w) - 1) = w

\* The characters of a string literal after its opening quote.
RECURSIVE ParseChars(_, _, _)
ParseChars(s, i, acc) ==
    IF i > Len(s) THEN Fail
    ELSE LET c == CharAt(s, i)
         IN  IF c = "\"" THEN Ok(JStr(acc), i + 1)
             ELSE IF c = "\\"
             THEN IF i + 1 <= Len(s) /\ CharAt(s, i + 1) \in {"\"", "\\", "/"}
                  THEN ParseChars(s, i + 2, acc \o CharAt(s, i + 1))
                  ELSE Fail
             ELSE ParseChars(s, i + 1, acc \o c)

RECURSIVE DigitsEnd(_, _)
DigitsEnd(s, i) ==
    IF i <= Len(s) /\ IsDigit(CharAt(s, i)) THEN DigitsEnd(s, i + 1) ELSE i

ParseNumber(s, i) ==
    LET j == DigitsEnd(s, i)
    IN  IF j - i > 9 \/ (j - i > 1 /\ CharAt(s, i) = "0") THEN Fail
        ELSE IF j <= Len(s) /\ CharAt(s, j) \in {".", "e", "E"} THEN Fail
        ELSE Ok(JNum(StringToNat(SubSeq(s, i, j - 1), 0)), j)

RECURSIVE ParseValue(_, _), ParseMembers(_, _, _), ParseElements(_, _, _)
\* A value starting at position i (blanks already skipped).
ParseValue(s, i) ==
    IF i > Len(s) THEN Fail
    ELSE LET c == CharAt(s, i)
         IN  CASE c = "\"" -> ParseChars(s, i + 1, "")
               [] c = "{" ->
                    LET j == SkipBlanks(s, i + 1)
                    IN  IF j <= Len(s) /\ CharAt(s, j) = "}" THEN Ok(JObj(<<>>), j + 1)
                        ELSE ParseMembers(s, j, JObj(<<>>))
               [] c = "[" ->
                    LET j == SkipBlanks(s, i + 1)
                    IN  IF j <= Len(s) /\ CharAt(s, j) = "]" THEN Ok(JArr(<<>>), j + 1)
                        ELSE ParseElements(s, j, <<>>)
               [] IsDigit(c) -> ParseNumber(s, i)
               [] StartsWith(s, i, "null") -> Ok(JNull, i + 4)
               [] StartsWith(s, i, "true") -> Ok(JBool(TRUE), i + 4)
               [] StartsWith(s, i, "false") -> Ok(JBool(FALSE), i + 5)
               [] OTHER -> Fail
\* The members of an object from position i on: "key" : value , ... }
ParseMembers(s, i, obj) ==
    IF i > Len(s) \/ CharAt(s, i) # "\"" THEN Fail
    ELSE LET k == ParseChars(s, i + 1, "")
         IN  IF ~k.ok THEN Fail
             ELSE LET c == SkipBlanks(s, k.i)
                  IN  IF c > Len(s) \/ CharAt(s, c) # ":" THEN Fail
                      ELSE LET m == ParseValue(s, SkipBlanks(s, c + 1))
                           IN  IF ~m.ok THEN Fail
                               ELSE LET e == SkipBlanks(s, m.i)
                                        o == DefineProp(obj, k.v.s, m.v)
                                    IN  IF e > Len(s) THEN Fail
                                        ELSE IF CharAt(s, e) = "}" THEN Ok(o, e + 1)
                                        ELSE IF CharAt(s, e) = ","
                                        THEN ParseMembers(s, SkipBlanks(s, e + 1), o)
                                        ELSE Fail
\* The elements of an array from position i on: value , ... ]
ParseElements(s, i, items) ==
    LET m == ParseValue(s, i)
    IN  IF ~m.ok THEN Fail
        ELSE LET e == SkipBlanks(s, m.i)
                 a == Append(items, m.v)
             IN  IF e > Len(s) THEN Fail
                 ELSE IF CharAt(s, e) = "]" THEN Ok(JArr(a), e + 1)
                 ELSE IF CharAt(s, e) = ","
                 THEN ParseElements(s, SkipBlanks(s, e + 1), a)
                 ELSE Fail

\* JSON.parse(text): [ok |-> TRUE, v |-> value], or ok = FALSE for the
\* SyntaxError it throws.
JSONparse(text) ==
    LET r == ParseValue(text, SkipBlanks(text, 1))
    IN  IF r.ok /\ SkipBlanks(text, r.i) = Len(text) + 1
        THEN [ok |-> TRUE, v |-> r.v]
        ELSE [ok |-> FALSE, v |-> Undefined]

(***************************************************************************)
(* The world state behind ctx.stub: a function from the keys present to    *)
(* their values.  getState of a missing key gives the empty buffer;        *)
(* getStateByRange("", "") gives every entry in ascending key order.       *)
(***************************************************************************)
getState(ws, key) == IF key \in DOMAIN ws THEN ws[key] ELSE ""

\* putState replacing the whole store by the one entry written.
putState_Alone(ws, key, value) == [k \in {key} |-> value]

putState(ws, key, value) ==
    [k \in DOMAIN ws \cup {key} |-> IF k = key THEN value ELSE ws[k]]

deleteState(ws, key) == [k \in DOMAIN ws \ {key} |-> ws[k]]

RECURSIVE KeysInOrder(_)
KeysInOrder(keys) ==
    IF keys = {} THEN <<>>
    ELSE LET least == CHOOSE k \in keys : \A o \in keys \ {k} : StrLess(k, o)
         IN  <<least>> \o KeysInOrder(keys \ {least})

getStateByRange(ws) ==
    LET ks == KeysInOrder(DOMAIN ws)
    IN  [i \in 1..Len(ks) |-> [key |-> ks[i], value |-> ws[ks[i]]]]

(***************************************************************************)
(* The arguments the callers draw from, and the values another writer may  *)
(* have left in the ledger.                                                *)
(***************************************************************************)
VoterPool == <<"voter1", "v2", "voter2", "w4", "x5">>

CandidatePool == <<"toString", "c\"A", "candidate1", "__proto__", "constructor">>

StationPool == <<"station1", "station2", "s\\3">>

ForeignPool == <<"not json", "null", "{\"Candidate\":\"cA\"}", "[]">>

Prefix(pool, n) == {pool[i] : i \in 1..(IF n < Len(pool) THEN n ELSE Len(pool))}

Voters == Prefix(VoterPool, NumVoters)

Candidates == Prefix(CandidatePool, NumCandidates)

Stations == Prefix(StationPool, NumStations)

ForeignValues == Prefix(ForeignPool, NumForeign)

(***************************************************************************)
(* The transactions.  Each is the whole handler: from the world state and  *)
(* the arguments to the world state after it, the error it threw (NoError  *)
(* when it returned) and the value it returned.  A handler that throws     *)
(* has written nothing.                                                    *)
(***************************************************************************)
NoError == ""

Return(ws, v) == [state |-> ws, err |-> NoError, ret |-> v]

Throw(ws, message) == [state |-> ws, err |-> message, ret |-> Undefined]

AlreadyExists(voterID) == "The vote from voter " \o voterID \o " already exists"

NotFound(voterID) == "The vote from voter " \o voterID \o " does not exist"

\* What a handler's range loop adds to its outcome: the keys of the entries its
\* body ran on, in order, and whether it left because result.done was true.
Exhausted(r) == [state |-> r.state, err |-> r.err, ret |-> r.ret,
                 visited |-> <<>>, done |-> TRUE]

Left(r, key) == [state |-> r.state, err |-> r.err, ret |-> r.ret,
                 visited |-> <<key>>, done |-> FALSE]

Visit(key, r) == [r EXCEPT !.visited = <<key>> \o @]

Outcome(r) == [state |-> r.state, err |-> r.err, ret |-> r.ret]

TypeError == "TypeError: Cannot read properties of null (reading 'CandidateID')"

\* The object literal {VoterID, CandidateID, Station}, in the order written.
Vote(voterID, candidateID, station) ==
    JObj(<< <<"VoterID", JStr(voterID)>>,
            <<"CandidateID", JStr(candidateID)>>,
            <<"Station", JStr(station)>> >>)

\* Buffer.from(stringify(sortKeysRecursive(vote)))
Encode(vote) == stringify(SortKeysRecursive(vote))

\* The encodings of the votes the transactions can write, computed once.
Encoded ==
    [v \in Voters \cup {"voter1", "voter2"},
     c \in Candidates \cup {"candidate1", "candidate2"},
     s \in Stations \cup {"station1", "station2"} |-> Encode(Vote(v, c, s))]

VoteExistsTx(ws, voterID) ==
    LET voteJSON == getState(ws, voterID)
    IN  Return(ws, JBool(Len(voteJSON) > 0))

Exists(ws, voterID) == VoteExistsTx(ws, voterID).ret.b

\* InitLedger writing both of its votes under the key of the first.
InitLedgerTx_OneKey(ws) ==
    LET ws1 == putState(ws, "voter1", Encoded["voter1", "candidate1", "station1"])
        ws2 == putState(ws1, "voter1", Encoded["voter2", "candidate2", "station2"])
    IN  Return(ws2, Undefined)

InitLedgerTx(ws) ==
    LET ws1 == putState(ws, "voter1", Encoded["voter1", "candidate1", "station1"])
        ws2 == putState(ws1, "voter2", Encoded["voter2", "candidate2", "station2"])
    IN  Return(ws2, Undefined)

\* RegisterVote without its existence check: it writes over a present vote.
RegisterVoteTx_Upsert(ws, voterID, candidateID, station) ==
    Return(putState(ws, voterID, Encoded[voterID, candidateID, station]), Undefined)

RegisterVoteTx(ws, voterID, candidateID, station) ==
    IF Exists(ws, voterID) THEN Throw(ws, AlreadyExists(voterID))
    ELSE Return(putState(ws, voterID, Encoded[voterID, candidateID, station]), Undefined)

\* ReadVote returning the stored text encoded once more, as a JSON string.
ReadVoteTx_Quoted(ws, voterID) ==
    LET voteJSON == getState(ws, voterID)
    IN  IF Len(voteJSON) = 0 THEN Throw(ws, NotFound(voterID))
        ELSE Return(ws, JStr(JSONstringify(JStr(voteJSON))))

ReadVoteTx(ws, voterID) ==
    LET voteJSON == getState(ws, voterID)
    IN  IF Len(voteJSON) = 0 THEN Throw(ws, NotFound(voterID))
        ELSE Return(ws, JStr(voteJSON))

\* UpdateVote without its existence check: it creates an absent vote.
UpdateVoteTx_Upsert(ws, voterID, candidateID, station) ==
    Return(putState(ws, voterID, Encoded[voterID, candidateID, station]), Undefined)

\* UpdateVote that checks and then writes nothing.
UpdateVoteTx_NoWrite(ws, voterID, candidateID, station) ==
    IF ~Exists(ws, voterID) THEN Throw(ws, NotFound(voterID))
    ELSE Return(ws, Undefined)

UpdateVoteTx(ws, voterID, candidateID, station) ==
    IF ~Exists(ws, voterID) THEN Throw(ws, NotFound(voterID))
    ELSE Return(putState(ws, voterID, Encoded[voterID, candidateID, station]), Undefined)

\* DeleteVote that checks and then deletes nothing.
DeleteVoteTx_NoDelete(ws, voterID) ==
    IF ~Exists(ws, voterID) THEN Throw(ws, NotFound(voterID))
    ELSE Return(ws, Undefined)

\* DeleteVote without its existence check: deleting an absent vote succeeds.
DeleteVoteTx_Unguarded(ws, voterID) == Return(deleteState(ws, voterID), Undefined)

DeleteVoteTx(ws, voterID) ==
    IF ~Exists(ws, voterID) THEN Throw(ws, NotFound(voterID))
    ELSE Return(deleteState(ws, voterID), Undefined)

\* vote.CandidateID for a parsed value that is neither null nor undefined:
\* only an object can have the member.
Member(v, name) == IF v.t = "object" THEN GetProp(v, name) ELSE Undefined

\* The loops below read each value as Buffer.from(value.toString()).toString("utf8");
\* the values here are ASCII texts, which that conversion returns as they are.

\* One pass of the body of GetVoteStatistics's loop over a decoded vote.
Count(allResults, vote) ==
    LET key == ToStringJS(Member(vote, "CandidateID"))
        zeroed == IF ~ToBoolean(GetProp(allResults, key))
                  THEN SetProp(allResults, key, JNum(0))
                  ELSE allResults
    IN  SetProp(zeroed, key, PlusOne(GetProp(zeroed, key)))

\* GetVoteStatistics's loop leaving one pass early: the last entry the
\* iterator delivers is not counted.
RECURSIVE StatisticsLoop_Short(_, _, _)
StatisticsLoop_Short(ws, entries, allResults) ==
    IF Len(entries) <= 1 THEN Exhausted(Return(ws, JStr(JSONstringify(allResults))))
    ELSE LET key == Head(entries).key
             parsed == JSONparse(Head(entries).value)
         IN  IF ~parsed.ok
             THEN Visit(key, StatisticsLoop_Short(ws, Tail(entries), allResults))
             ELSE IF parsed.v.t = "null" THEN Left(Throw(ws, TypeError), key)
             ELSE Visit(key, StatisticsLoop_Short(ws, Tail(entries),
                                                  Count(allResults, parsed.v)))

RECURSIVE StatisticsLoop(_, _, _)
StatisticsLoop(ws, entries, allResults) ==
    IF entries = <<>> THEN Exhausted(Return(ws, JStr(JSONstringify(allResults))))
    ELSE LET key == Head(entries).key
             strValue == Head(entries).value
             parsed == JSONparse(strValue)
         IN  IF ~parsed.ok
             THEN Visit(key, StatisticsLoop(ws, Tail(entries), allResults))
             ELSE IF parsed.v.t = "null" THEN Left(Throw(ws, TypeError), key)
             ELSE Visit(key, StatisticsLoop(ws, Tail(entries), Count(allResults, parsed.v)))

GetVoteStatisticsTx(ws) == Outcome(StatisticsLoop(ws, getStateByRange(ws), JObj(<<>>)))

\* GetAllVotes's loop skipping an undecodable value as GetVoteStatistics's does.
RECURSIVE AllVotesLoop_Skip(_, _, _)
AllVotesLoop_Skip(ws, entries, allResults) ==
    IF entries = <<>> THEN Return(ws, JStr(JSONstringify(JArr(allResults))))
    ELSE LET strValue == Head(entries).value
             parsed == JSONparse(strValue)
         IN  IF ~parsed.ok THEN AllVotesLoop_Skip(ws, Tail(entries), allResults)
             ELSE AllVotesLoop_Skip(ws, Tail(entries), Append(allResults, parsed.v))

RECURSIVE AllVotesLoop(_, _, _)
AllVotesLoop(ws, entries, allResults) ==
    IF entries = <<>> THEN Exhausted(Return(ws, JStr(JSONstringify(JArr(allResults)))))
    ELSE LET key == Head(entries).key
             strValue == Head(entries).value
             parsed == JSONparse(strValue)
             record == IF parsed.ok THEN parsed.v ELSE JStr(strValue)
         IN  Visit(key, AllVotesLoop(ws, Tail(entries), Append(allResults, record)))

GetAllVotesTx(ws) == Outcome(AllVotesLoop(ws, getStateByRange(ws), <<>>))

\* DeleteAllVotes's loop leaving after its first deleteState.
DeleteLoop_Once(ws, entries) ==
    IF entries = <<>> THEN Return(ws, Undefined)
    ELSE Return(deleteState(ws, Head(entries).key), Undefined)

\* DeleteAllVotes's loop advancing its iterator twice in a pass: every second
\* entry is stepped over.
RECURSIVE DeleteLoop_Alternate(_, _)
DeleteLoop_Alternate(ws, entries) ==
    IF entries = <<>> THEN Exhausted(Return(ws, Undefined))
    ELSE Visit(Head(entries).key,
               DeleteLoop_Alternate(deleteState(ws, Head(entries).key),
                                    IF Len(entries) = 1 THEN <<>> ELSE Tail(Tail(entries))))

RECURSIVE DeleteLoop(_, _)
DeleteLoop(ws, entries) ==
    IF entries = <<>> THEN Exhausted(Return(ws, Undefined))
    ELSE Visit(Head(entries).key,
               DeleteLoop(deleteState(ws, Head(entries).key), Tail(entries)))

\* DeleteAllVotes guarded as DeleteVote is: an empty store is an error.
DeleteAllVotesTx_Guarded(ws) ==
    IF DOMAIN ws = {} THEN Throw(ws, "No vote exists")
    ELSE Outcome(DeleteLoop(ws, getStateByRange(ws)))

DeleteAllVotesTx(ws) == Outcome(DeleteLoop(ws, getStateByRange(ws)))

(***************************************************************************)
(* The state machine: the world state, the last call, its response, and    *)
(* the world state that call started from.                                 *)
(***************************************************************************)
Responded(r) == [err |-> r.err, ret |-> r.ret]

Init ==
    /\ state = <<>>
    /\ before = state
    /\ call = [op |-> "none", args |-> <<>>]
    /\ response = [err |-> NoError, ret |-> Undefined]

\* A ledger that already holds, under some voter keys, values this contract
\* did not write (an earlier version of the chaincode, another writer of the
\* same namespace): the case the catch blocks of GetVoteStatistics and
\* GetAllVotes are written for.
InitForeign ==
    /\ \E ks \in SUBSET Voters : state \in [ks -> ForeignValues]
    /\ before = state
    /\ call = [op |-> "none", args |-> <<>>]
    /\ response = [err |-> NoError, ret |-> Undefined]

InitLedger ==
    LET r == InitLedgerTx(state)
    IN  /\ state' = r.state
        /\ before' = state
        /\ call' = [op |-> "InitLedger", args |-> <<>>]
        /\ response' = Responded(r)

RegisterVote ==
    \E voterID \in Voters, candidateID \in Candidates, station \in Stations :
        LET r == RegisterVoteTx(state, voterID, candidateID, station)
        IN  /\ state' = r.state
            /\ before' = state
            /\ call' = [op |-> "RegisterVote", args |-> <<voterID, candidateID, station>>]
            /\ response' = Responded(r)

ReadVote ==
    \E voterID \in Voters :
        LET r == ReadVoteTx(state, voterID)
        IN  /\ state' = r.state
            /\ before' = state
            /\ call' = [op |-> "ReadVote", args |-> <<voterID>>]
            /\ response' = Responded(r)

UpdateVote ==
    \E voterID \in Voters, candidateID \in Candidates, station \in Stations :
        LET r == UpdateVoteTx(state, voterID, candidateID, station)
        IN  /\ state' = r.state
            /\ before' = state
            /\ call' = [op |-> "UpdateVote", args |-> <<voterID, candidateID, station>>]
            /\ response' = Responded(r)

DeleteVote ==
    \E voterID \in Voters :
        LET r == DeleteVoteTx(state, voterID)
        IN  /\ state' = r.state
            /\ before' = state
            /\ call' = [op |-> "DeleteVote", args |-> <<voterID>>]
            /\ response' = Responded(r)

VoteExists ==
    \E voterID \in Voters :
        LET r == VoteExistsTx(state, voterID)
        IN  /\ state' = r.state
            /\ before' = state
            /\ call' = [op |-> "VoteExists", args |-> <<voterID>>]
            /\ response' = Responded(r)

GetVoteStatistics ==
    LET r == GetVoteStatisticsTx(state)
    IN  /\ state' = r.state
        /\ before' = state
        /\ call' = [op |-> "GetVoteStatistics", args |-> <<>>]
        /\ response' = Responded(r)

GetAllVotes ==
    LET r == GetAllVotesTx(state)
    IN  /\ state' = r.state
        /\ before' = state
        /\ call' = [op |-> "GetAllVotes", args |-> <<>>]
        /\ response' = Responded(r)

DeleteAllVotes ==
    LET r == DeleteAllVotesTx(state)
    IN  /\ state' = r.state
        /\ before' = state
        /\ call' = [op |-> "DeleteAllVotes", args |-> <<>>]
        /\ response' = Responded(r)

Next ==
    \/ InitLedger
    \/ RegisterVote
    \/ ReadVote
    \/ UpdateVote
    \/ DeleteVote
    \/ VoteExists
    \/ GetVoteStatistics
    \/ GetAllVotes
    \/ DeleteAllVotes

Spec == Init /\ [][Next]_vars

\* DeleteAllVotes cut short between two passes of its loop (the peer stops, the
\* call times out): the first n of its deleteState calls have been made, none
\* of the others, and the caller gets no result.
Interrupted == "interrupted"

DeleteAllVotesInterrupted ==
    \E n \in 0..Cardinality(DOMAIN state) :
        LET r == DeleteLoop(state, SubSeq(getStateByRange(state), 1, n))
        IN  /\ state' = r.state
            /\ before' = state
            /\ call' = [op |-> "DeleteAllVotes", args |-> <<>>]
            /\ response' = [err |-> Interrupted, ret |-> Undefined]

SpecInterrupted == Init /\ [][Next \/ DeleteAllVotesInterrupted]_vars

SpecLedger == InitForeign /\ [][Next]_vars

(***************************************************************************)
(* Properties.  The last call is call.op with the arguments call.args; it  *)
(* started from the world state before and left the world state state.     *)
(***************************************************************************)
Called(op) == call.op = op

Succeeded == response.err = NoError

\* text decodes to exactly the record {VoterID: v, CandidateID: c, Station: s}.
DecodesTo(text, v, c, s) ==
    LET p == JSONparse(text)
    IN  /\ p.ok
        /\ p.v.t = "object"
        /\ Len(p.v.props) = 3
        /\ {p.v.props[i] : i \in 1..3}
              = {<<"VoterID", JStr(v)>>, <<"CandidateID", JStr(c)>>, <<"Station", JStr(s)>>}

\* What ReadVote(v) returns in world state ws decodes to the record (v, c, s).
ReadsAs(ws, v, c, s) ==
    LET r == ReadVoteTx(ws, v)
    IN  r.err = NoError /\ r.ret.t = "string" /\ DecodesTo(r.ret.s, v, c, s)

\* C1: RegisterVote(v, c, s) on a voter v that is absent succeeds; afterwards
\* VoteExists(v) is true and ReadVote(v) returns a text that decodes to exactly
\* the record {VoterID: v, CandidateID: c, Station: s}.
C1_RegisterAbsent ==
    (Called("RegisterVote") /\ ~Exists(before, call.args[1])) =>
        /\ Succeeded
        /\ Exists(state, call.args[1])
        /\ ReadsAs(state, call.args[1], call.args[2], call.args[3])
        /\ ReadVoteTx(state, call.args[1]).ret
              = JStr(Encode(Vote(call.args[1], call.args[2], call.args[3])))

\* A vote for a candidate whose id holds a quote was registered for an absent voter.
C1_Witness ==
    /\ Called("RegisterVote")
    /\ ~Exists(before, call.args[1])
    /\ Succeeded
    /\ call.args[2] = "c\"A"

\* C2: RegisterVote(v, c, s) on a voter v that is present throws the
\* "already exists" error and leaves the whole world state as it was.
C2_RegisterPresent ==
    (Called("RegisterVote") /\ Exists(before, call.args[1])) =>
        /\ response.err = AlreadyExists(call.args[1])
        /\ state = before

\* RegisterVote was refused for a present voter whose stored vote differs from
\* the one the call carried.
C2_Witness ==
    /\ Called("RegisterVote")
    /\ Exists(before, call.args[1])
    /\ response.err = AlreadyExists(call.args[1])
    /\ ~ReadsAs(before, call.args[1], call.args[2], call.args[3])

\* C3: ReadVote(v), UpdateVote(v, c, s) and DeleteVote(v) on a voter v that is
\* absent each throw the "does not exist" error and leave the world state as
\* it was.
C3_AbsentNotFound ==
    (call.op \in {"ReadVote", "UpdateVote", "DeleteVote"} /\ ~Exists(before, call.args[1])) =>
        /\ response.err = NotFound(call.args[1])
        /\ state = before

\* UpdateVote was refused for an absent voter while another vote was stored.
C3_Witness ==
    /\ Called("UpdateVote")
    /\ ~Exists(before, call.args[1])
    /\ response.err = NotFound(call.args[1])
    /\ DOMAIN before # {}

\* C4: UpdateVote(v, c2, s2) on a present voter v (one registered with c1, s1)
\* succeeds, v stays present, and ReadVote(v) then decodes to exactly
\* {VoterID: v, CandidateID: c2, Station: s2}: nothing of the old value is left.
C4_UpdateReplaces ==
    (Called("UpdateVote") /\ Exists(before, call.args[1])) =>
        /\ Succeeded
        /\ Exists(state, call.args[1])
        /\ ReadsAs(state, call.args[1], call.args[2], call.args[3])
        /\ DOMAIN state = DOMAIN before

\* The vote of v2, a voter only RegisterVote can have stored, was updated to
\* another candidate.
C4_Witness ==
    /\ Called("UpdateVote")
    /\ call.args[1] = "v2"
    /\ \E c1 \in Candidates \ {call.args[2]}, s1 \in Stations :
            ReadsAs(before, "v2", c1, s1)
    /\ Succeeded

\* C5: DeleteVote(v) on a present voter v removes the key: afterwards
\* VoteExists(v) is false, ReadVote(v) throws "does not exist", and
\* RegisterVote(v, c, s) succeeds again for every c and s.
C5_DeletePresent ==
    (Called("DeleteVote") /\ Exists(before, call.args[1])) =>
        /\ Succeeded
        /\ call.args[1] \notin DOMAIN state
        /\ ~Exists(state, call.args[1])
        /\ ReadVoteTx(state, call.args[1]).err = NotFound(call.args[1])
        /\ \A c \in Candidates, s \in Stations :
              LET r == RegisterVoteTx(state, call.args[1], c, s)
              IN  r.err = NoError /\ ReadsAs(r.state, call.args[1], c, s)

\* A present vote was deleted while another vote stayed stored.
C5_Witness ==
    /\ Called("DeleteVote")
    /\ Exists(before, call.args[1])
    /\ Succeeded
    /\ DOMAIN state # {}

\* The CandidateID of the vote stored under key k of world state ws.
StoredCandidate(ws, k) == Member(JSONparse(ws[k]).v, "CandidateID").s

\* C6: GetVoteStatistics returns a mapping whose keys are exactly the
\* CandidateIDs of the stored votes and whose value for each is the number of
\* stored votes with that CandidateID, whatever string the CandidateID is.
C6_TallyCounts ==
    Called("GetVoteStatistics") =>
        /\ Succeeded
        /\ LET tally == JSONparse(response.ret.s)
           IN  /\ tally.ok
               /\ tally.v.t = "object"
               /\ {tally.v.props[i][1] : i \in 1..Len(tally.v.props)}
                     = {StoredCandidate(state, k) : k \in DOMAIN state}
               /\ \A i \in 1..Len(tally.v.props) :
                     tally.v.props[i][2]
                       = JNum(Cardinality({k \in DOMAIN state :
                               StoredCandidate(state, k) = tally.v.props[i][1]}))

\* text parses to an object with VoterID, CandidateID and Station members.
IsVote(text) ==
    LET p == JSONparse(text)
    IN  /\ p.ok
        /\ p.v.t = "object"
        /\ \A name \in {"VoterID", "CandidateID", "Station"} : HasOwn(p.v, name)

\* The entries of world state ws whose value is a vote.
Votes(ws) == [k \in {j \in DOMAIN ws : IsVote(ws[j])} |-> ws[k]]

\* C7: with stored values that are no votes, GetVoteStatistics does not fail
\* and returns what it returns for the votes alone: every such value is
\* skipped and counted nowhere.
C7_TallySkipsUndecodable ==
    (Called("GetVoteStatistics") /\ \E k \in DOMAIN state : ~IsVote(state[k])) =>
        /\ Succeeded
        /\ response.ret = GetVoteStatisticsTx(Votes(state)).ret

\* The position of key k among the keys of ws in ascending order.
Rank(ws, k) == 1 + Cardinality({o \in DOMAIN ws : StrLess(o, k)})

C9_DeleteAllEmpties ==
    (Called("DeleteAllVotes") /\ DOMAIN before # {}) =>
        /\ Succeeded
        /\ DOMAIN state = {}
        /\ GetAllVotesTx(state) = Return(state, JStr("[]"))
        /\ GetVoteStatisticsTx(state) = Return(state, JStr("{}"))
        /\ \A v \in Voters \cup DOMAIN before : ~Exists(state, v)

\* DeleteAllVotes ran over a store of several votes.
C9_Witness ==
    /\ Called("DeleteAllVotes")
    /\ Cardinality(DOMAIN before) >= 2
    /\ Succeeded

\* C10: DeleteAllVotes raises no error and leaves the store empty, also on a
\* store that is already empty, and doing it again from there does the same;
\* the guarded DeleteVote on that empty store throws.
C10_DeleteAllIdempotent ==
    Called("DeleteAllVotes") =>
        /\ Succeeded
        /\ DOMAIN state = {}
        /\ DeleteAllVotesTx(state) = Return(state, Undefined)
        /\ \A v \in Voters : DeleteVoteTx(state, v).err = NotFound(v)

\* DeleteAllVotes ran on the empty store (as the second of two in succession does).
C10_Witness ==
    /\ Called("DeleteAllVotes")
    /\ DOMAIN before = {}
    /\ Succeeded

\* The records holding the fields of Vote(v, c, s), in every order of their keys.
KeyOrders(v, c, s) ==
    LET props == Vote(v, c, s).props
    IN  {JObj([i \in 1..3 |-> props[p[i]]]) : p \in Permutations(1..3)}

\* C11: the encoding does not depend on the order of a record's keys and is
\* defined for every record: whatever the order the fields of (v, c, s) are
\* given in, Encode gives one and the same text, and that text is the value a
\* successful RegisterVote or UpdateVote of (v, c, s) and InitLedger store.
C11_EncodingKeyOrderFree ==
    /\ (call.op \in {"RegisterVote", "UpdateVote"} /\ Succeeded) =>
          \A r \in KeyOrders(call.args[1], call.args[2], call.args[3]) :
              Encode(r) = state[call.args[1]]
    /\ Called("InitLedger") =>
          /\ \A r \in KeyOrders("voter1", "candidate1", "station1") :
                Encode(r) = state["voter1"]
          /\ \A r \in KeyOrders("voter2", "candidate2", "station2") :
                Encode(r) = state["voter2"]

\* UpdateVote stored the text that the record written with its keys in the
\* reverse of the handler's order encodes to.
C11_Witness ==
    /\ Called("UpdateVote")
    /\ Succeeded
    /\ state[call.args[1]]
          = Encode(JObj(<< <<"Station", JStr(call.args[3])>>,
                           <<"CandidateID", JStr(call.args[2])>>,
                           <<"VoterID", JStr(call.args[1])>> >>))
    /\ Cardinality(KeyOrders(call.args[1], call.args[2], call.args[3])) = 6

\* The canonical text of the record (v, c, s): its three members in ascending
\* key order, nothing between the tokens.
Canonical(v, c, s) ==
    "{\"CandidateID\":" \o Quote(c) \o ",\"Station\":" \o Quote(s)
        \o ",\"VoterID\":" \o Quote(v) \o "}"

\* text is the canonical text of a record whose VoterID is key.
IsRecordOf(text, key) ==
    LET p == JSONparse(text)
    IN  /\ p.ok
        /\ p.v.t = "object"
        /\ Len(p.v.props) = 3
        /\ \A i \in 1..3 : p.v.props[i][2].t = "string"
        /\ <<p.v.props[1][1], p.v.props[2][1], p.v.props[3][1]>>
              = <<"CandidateID", "Station", "VoterID">>
        /\ p.v.props[3][2].s = key
        /\ text = Canonical(key, p.v.props[1][2].s, p.v.props[2][2].s)

\* C12: in every state reached from the empty store, every key holds one
\* value, that value is the canonical encoding of a record, and the record's
\* VoterID is the key it is stored under.
C12_StoredRecords ==
    \A k \in DOMAIN state :
        /\ IsRecordOf(state[k], k)
        /\ getState(state, k) = state[k]
        /\ Cardinality({e \in {getStateByRange(state)[i] : i \in DOMAIN getStateByRange(state)} :
                           e.key = k}) = 1

\* Three records are stored, written by InitLedger and by RegisterVote, one of
\* them for a candidate whose id needs an escape.
C12_Witness ==
    /\ Cardinality(DOMAIN state) = 3
    /\ \E k \in DOMAIN state, s \in Stations : state[k] = Canonical(k, "c\"A", s)

\* C13: a key goes from absent to present only by a successful RegisterVote of
\* that key, its value changes while it is present only by a successful
\* UpdateVote of that key, and it goes from present to absent only by
\* DeleteVote of that key or by DeleteAllVotes; so no call writes over a
\* present vote without having checked that it exists.
C13_Lifecycle ==
    \A k \in DOMAIN state \cup DOMAIN before :
        /\ (~Exists(before, k) /\ Exists(state, k)) =>
              (Called("RegisterVote") /\ Succeeded /\ call.args[1] = k)
        /\ (Exists(before, k) /\ Exists(state, k) /\ state[k] # before[k]) =>
              (Called("UpdateVote") /\ Succeeded /\ call.args[1] = k)
        /\ (Exists(before, k) /\ ~Exists(state, k)) =>
              \/ (Called("DeleteVote") /\ Succeeded /\ call.args[1] = k)
              \/ (Called("DeleteAllVotes") /\ Succeeded)

\* C14: when DeleteAllVotes is cut short after any number of its deletes, every
\* key is either absent or present with the value it had before (none is
\* created or changed), and DeleteAllVotes called again from that state
\* returns without error and leaves the store empty.
C14_DeleteAllInterrupted ==
    (Called("DeleteAllVotes") /\ response.err = Interrupted) =>
        /\ \A k \in DOMAIN before \cup DOMAIN state \cup Voters :
              \/ ~Exists(state, k)
              \/ (Exists(before, k) /\ getState(state, k) = getState(before, k))
        /\ DeleteAllVotesTx(state) = Return(<<>>, Undefined)

\* DeleteAllVotes was cut short after some of its deletes and before others.
C14_Witness ==
    /\ Called("DeleteAllVotes")
    /\ response.err = Interrupted
    /\ DOMAIN state # {}
    /\ DOMAIN state # DOMAIN before

\* C15: VoteExists, ReadVote, GetAllVotes and GetVoteStatistics leave the world
\* state as it was, whether they return or throw; ReadVote of a present key
\* returns exactly the stored text; VoteExists never throws and returns true
\* exactly when a value that is not empty is stored under the key.
C15_ReadOnly ==
    /\ call.op \in {"VoteExists", "ReadVote", "GetAllVotes", "GetVoteStatistics"} =>
          state = before
    /\ (Called("ReadVote") /\ Exists(before, call.args[1])) =>
          /\ Succeeded
          /\ response.ret = JStr(before[call.args[1]])
    /\ Called("VoteExists") =>
          /\ Succeeded
          /\ response.ret = JBool(/\ call.args[1] \in DOMAIN before
                                  /\ before[call.args[1]] # "")

\* GetVoteStatistics threw over a store holding a vote and another value.
C15_Witness ==
    /\ Called("GetVoteStatistics")
    /\ ~Succeeded
    /\ \E k, j \in DOMAIN before : IsVote(before[k]) /\ ~IsVote(before[j])
    /\ state = before

\* The orders in which an iterator can deliver the entries of a scan.
Orders(entries) ==
    {[i \in 1..Len(entries) |-> entries[p[i]]] : p \in Permutations(1..Len(entries))}

\* The outcome r of GetVoteStatistics as a mapping: the error, if it threw,
\* and the set of the members of the object it returned.
TallyOf(r) ==
    IF r.err # NoError THEN [err |-> r.err, members |-> {}]
    ELSE LET tally == JSONparse(r.ret.s).v
         IN  [err |-> NoError,
              members |-> {tally.props[i] : i \in 1..Len(tally.props)}]

\* C16: for one world state, GetVoteStatistics gives the same mapping from
\* CandidateID to count in whatever order the iterator delivers the entries.
C16_TallyOrderFree ==
    Called("GetVoteStatistics") =>
        \A order \in Orders(getStateByRange(before)) :
            TallyOf(StatisticsLoop(before, order, JObj(<<>>))) = TallyOf(response)

\* GetVoteStatistics ran over votes for different candidates: another order
\* of delivery writes the members of the result in another order, and the
\* mapping is the same.
C16_Witness ==
    /\ Called("GetVoteStatistics")
    /\ Succeeded
    /\ \E order \in Orders(getStateByRange(before)) :
          LET r == StatisticsLoop(before, order, JObj(<<>>))
          IN  r.ret # response.ret /\ TallyOf(r) = TallyOf(response)

\* The loop whose outcome is r ran its body on every entry of ws once, in the
\* order of the keys, and left because the iterator reported done.
Drains(r, ws) == r.done /\ r.visited = KeysInOrder(DOMAIN ws)

\* C17: GetAllVotes, GetVoteStatistics and DeleteAllVotes each drain their
\* iterator: on every path through the loop body the iterator is advanced
\* once, so each entry of the world state is visited exactly once, and the
\* loop ends when the iterator reports that it is exhausted.
C17_IteratorsDrained ==
    /\ Called("GetAllVotes") =>
          Drains(AllVotesLoop(before, getStateByRange(before), <<>>), before)
    /\ Called("GetVoteStatistics") =>
          Drains(StatisticsLoop(before, getStateByRange(before), JObj(<<>>)), before)
    /\ (Called("DeleteAllVotes") /\ response.err # Interrupted) =>
          Drains(DeleteLoop(before, getStateByRange(before)), before)

\* C18: with every call run as one atomic step and the calls of several
\* callers interleaved in any order, a RegisterVote that succeeds found its
\* voter absent, an UpdateVote or DeleteVote that succeeds found it present,
\* and of two RegisterVote calls for the same absent voter, in either order,
\* the first succeeds, the second throws, and the stored vote is the first's.
C18_AtomicCalls ==
    /\ (Called("RegisterVote") /\ Succeeded) => ~Exists(before, call.args[1])
    /\ (call.op \in {"UpdateVote", "DeleteVote"} /\ Succeeded) =>
          Exists(before, call.args[1])
    /\ (Called("RegisterVote") /\ ~Exists(before, call.args[1])) =>
          /\ Succeeded
          /\ \A c \in Candidates, s \in Stations :
                LET v == call.args[1]
                    late == RegisterVoteTx(state, v, c, s)
                    early == RegisterVoteTx(before, v, c, s)
                    then == RegisterVoteTx(early.state, v, call.args[2], call.args[3])
                IN  /\ late.err = AlreadyExists(v)
                    /\ late.state = state
                    /\ ReadsAs(late.state, v, call.args[2], call.args[3])
                    /\ early.err = NoError
                    /\ then.err = AlreadyExists(v)
                    /\ ReadsAs(then.state, v, c, s)

\* The second of two RegisterVote calls for v2 was refused and the vote of the
\* first, for another candidate, is the one stored.
C18_Witness ==
    /\ Called("RegisterVote")
    /\ call.args[1] = "v2"
    /\ response.err = AlreadyExists("v2")
    /\ state = before
    /\ \E c \in Candidates \ {call.args[2]}, s \in Stations : state["v2"] = Encode(Vote("v2", c, s))

\* C19: RegisterVote(v, ..), UpdateVote(v, ..) and DeleteVote(v) touch the key
\* v alone: whether they return or throw, every other key is present or
\* absent as before and holds the value it held.
C19_OtherKeysUntouched ==
    call.op \in {"RegisterVote", "UpdateVote", "DeleteVote"} =>
        \A w \in (DOMAIN state \cup DOMAIN before \cup Voters) \ {call.args[1]} :
            /\ Exists(state, w) <=> Exists(before, w)
            /\ w \in DOMAIN state <=> w \in DOMAIN before
            /\ getState(state, w) = getState(before, w)

\* RegisterVote stored a vote for v2 while the votes of two other voters were
\* present.
C19_Witness ==
    /\ Called("RegisterVote")
    /\ Succeeded
    /\ call.args[1] = "v2"
    /\ DOMAIN before = {"voter1", "voter2"}
    /\ DOMAIN state = {"v2", "voter1", "voter2"}

====
